---- MODULE Spec2Model ----
(***************************************************************************)
(* Model of the network-mapper scan engine: host discovery with its ping   *)
(* fallback, the sequential per-host pipelines of scan_network, the        *)
(* weighted device classifier and the TTL fallback of OS detection.        *)
(* Three specifications share the variables:                               *)
(*   Spec         scan_network (discovery, dispatch, per-host pipelines)   *)
(*   SpecClassify classify_device on one host                              *)
(*   SpecTTL      detect_os / _detect_os_by_ttl on one host                *)
(***************************************************************************)
EXTENDS Integers, Sequences, FiniteSets, TLC

(***************************************************************************)
(* Bounds of the model                                                     *)
(***************************************************************************)
\* number of addresses the target network can hold
NumAddr == 2
\* largest configured value of Config.max_concurrent_scans explored
MaxConfigConcurrent == 2
\* number of ports with a service in one host's scan report
MaxEntries == 2
\* number of vocabulary words concatenated into a hostname
MaxWords == 2
\* number of digits in the TTL field of the ping output
MaxDigits == 3
\* number of ports handed to one quick_port_scan call
MaxProbePorts == 3
\* number of protocol signatures analyze_device tests
MaxSignatures == 2
\* number of entries of app_protocols _detect_additional_protocols tests
MaxAppProtocols == 2

(***************************************************************************)
(* Generic helpers                                                         *)
(***************************************************************************)
Range(s) == {s[i] : i \in DOMAIN s}

Min(S) == CHOOSE x \in S : \A y \in S : x <= y

Max(S) == CHOOSE x \in S : \A y \in S : x >= y

RECURSIVE SortedSeq(_)
\* ascending enumeration of a finite set of integers
SortedSeq(S) == IF S = {} THEN <<>> ELSE <<Min(S)>> \o SortedSeq(S \ {Min(S)})

\* Python None for string-valued fields
None == "None"

(***************************************************************************)
(* Text: strings are sequences of one-character strings                    *)
(***************************************************************************)
Uppers == <<"A","B","C","D","E","F","G","H","I","J","K","L","M",
            "N","O","P","Q","R","S","T","U","V","W","X","Y","Z">>

Lowers == <<"a","b","c","d","e","f","g","h","i","j","k","l","m",
            "n","o","p","q","r","s","t","u","v","w","x","y","z">>

\* str.lower() on one character
LowerChar(c) ==
  IF \E i \in DOMAIN Uppers : Uppers[i] = c
  THEN Lowers[CHOOSE i \in DOMAIN Uppers : Uppers[i] = c]
  ELSE c

\* str.lower()
lower(s) == [i \in DOMAIN s |-> LowerChar(s[i])]

\* Python's  p in s  on strings
IsSubstr(p, s) ==
  \E i \in 0..(Len(s) - Len(p)) : SubSeq(s, i + 1, i + Len(p)) = p

(***************************************************************************)
(* DeviceClassifier._load_device_patterns: the registry, in the insertion  *)
(* order of the dict (the order .items() iterates in)                      *)
(***************************************************************************)
device_patterns ==
  <<
    [name |-> "router",
     ports |-> {80, 443, 22, 23},
     services |-> {"http", "https", "ssh", "telnet"},
     patterns |-> <<<<"r", "o", "u", "t", "e", "r">>,
                    <<"g", "a", "t", "e", "w", "a", "y">>,
                    <<"c", "i", "s", "c", "o">>,
                    <<"j", "u", "n", "i", "p", "e", "r">>,
                    <<"f", "o", "r", "t", "i", "n", "e", "t">>>>,
     priority |-> 1],
    [name |-> "switch",
     ports |-> {22, 23, 80, 443},
     services |-> {"ssh", "telnet", "http", "https"},
     patterns |-> <<<<"s", "w", "i", "t", "c", "h">>,
                    <<"c", "a", "t", "a", "l", "y", "s", "t">>,
                    <<"n", "e", "x", "u", "s">>>>,
     priority |-> 2],
    [name |-> "server",
     ports |-> {22, 80, 443, 3306, 5432, 27017},
     services |-> {"ssh", "http", "https", "mysql", "postgresql", "mongodb"},
     patterns |-> <<<<"s", "e", "r", "v", "e", "r">>,
                    <<"a", "p", "a", "c", "h", "e">>,
                    <<"n", "g", "i", "n", "x">>,
                    <<"m", "y", "s", "q", "l">>,
                    <<"p", "o", "s", "t", "g", "r", "e", "s", "q", "l">>>>,
     priority |-> 3],
    [name |-> "printer",
     ports |-> {80, 443, 631, 9100},
     services |-> {"http", "https", "ipp", "printer"},
     patterns |-> <<<<"p", "r", "i", "n", "t", "e", "r">>,
                    <<"h", "p">>,
                    <<"c", "a", "n", "o", "n">>,
                    <<"e", "p", "s", "o", "n">>,
                    <<"b", "r", "o", "t", "h", "e", "r">>>>,
     priority |-> 4],
    [name |-> "camera",
     ports |-> {80, 443, 554, 8000},
     services |-> {"http", "https", "rtsp"},
     patterns |-> <<<<"c", "a", "m", "e", "r", "a">>,
                    <<"i", "p", "c", "a", "m">>,
                    <<"d", "v", "r">>,
                    <<"n", "v", "r">>>>,
     priority |-> 5],
    [name |-> "iot",
     ports |-> {80, 443, 1883, 8883},
     services |-> {"http", "https", "mqtt"},
     patterns |-> <<<<"i", "o", "t">>,
                    <<"s", "m", "a", "r", "t">>,
                    <<"h", "o", "m", "e">>,
                    <<"a", "u", "t", "o", "m", "a", "t", "i", "o", "n">>>>,
     priority |-> 6],
    [name |-> "mobile",
     ports |-> {80, 443},
     services |-> {"http", "https"},
     patterns |-> <<<<"m", "o", "b", "i", "l", "e">>,
                    <<"a", "n", "d", "r", "o", "i", "d">>,
                    <<"i", "o", "s">>,
                    <<"p", "h", "o", "n", "e">>>>,
     priority |-> 7],
    [name |-> "workstation",
     ports |-> {22, 80, 443, 3389},
     services |-> {"ssh", "http", "https", "rdp"},
     patterns |-> <<<<"w", "i", "n", "d", "o", "w", "s">>,
                    <<"l", "i", "n", "u", "x">>,
                    <<"m", "a", "c">>,
                    <<"d", "e", "s", "k", "t", "o", "p">>>>,
     priority |-> 8]
  >>

\* weights of classify_device's scoring loop
PortWeight == 2

ServiceWeight == 3

HostnameWeight == 5

VARIABLES
  \* ---- classify_device on one host (SpecClassify) ----
  cpc,           \* position inside classify_device
  host,          \* environment: the host's scan report, port -> service name
  device,        \* the candidate dict handed to classify_device
  open_ports,    \* local open_ports of classify_device
  services,      \* local services of classify_device
  device_score,  \* local device_score, in registry order
  device_type,   \* value returned by classify_device
  \* ---- detect_os on one host (SpecTTL) ----
  tpc,           \* position inside detect_os
  os_scan,       \* environment: outcome of the external OS scan
  ping,          \* environment: outcome and output of the ping subprocess
  ttl,           \* TTL parsed from the ping output, -1 when none was parsed
  operating_system,  \* value returned by detect_os
  \* ---- scan_network (Spec) ----
  pc,            \* position inside scan_network / discover_devices
  config,        \* the Config the NetworkMapper was built with
  target,        \* the target argument
  mode,          \* the mode argument
  detailed,      \* the detailed argument
  primary,       \* what the external enumeration scan of discovery did
  probes,        \* kinds of network probes issued so far
  pings,         \* ping_host outcome per address of the sweep
  devices,       \* candidates returned by discover_devices
  dispatched,    \* number of candidates the for loop has started
  stage,         \* per candidate: position inside its pipeline
  result,        \* per candidate: the ScanResult under construction
  scan_results,  \* scan_results of scan_network
  error,         \* exception that left scan_network, None if none
  started,       \* per candidate: the pipeline steps begun so far, in order
  absorbed,      \* per candidate: the steps whose exception was caught
  \* ---- quick_classify on one host (SpecQuick) ----
  qpc,           \* position inside quick_classify
  qopen,         \* environment: ports of the host that accept a connection
  qtype,         \* value returned by quick_classify
  \* ---- quick_port_scan on one host (SpecProbe) ----
  ppc,           \* position inside quick_port_scan
  probe_ports,   \* the ports argument
  conn,          \* per probed port: how far its check_port task has come
  probed,        \* value returned by quick_port_scan
  \* ---- analyze_device on one host (SpecProto) ----
  apc,           \* position inside analyze_device
  asig,          \* index of the signature under test
  aport,         \* index of the port under test within the signature
  tried,         \* per signature and port: how its pass of the loop ended
  aopen,         \* connections opened and not closed
  aprotocols,    \* the protocols list
  app_idx,       \* index of the entry of app_protocols under test
  app_tried,     \* per entry of app_protocols: how its pass ended
  areturned      \* value returned by analyze_device

clsVars == <<cpc, host, device, open_ports, services, device_score, device_type>>

ttlVars == <<tpc, os_scan, ping, ttl, operating_system>>

scanVars == <<pc, config, target, mode, detailed, primary, probes, pings,
              devices, dispatched, stage, result, scan_results, error,
              started, absorbed>>

quickVars == <<qpc, qopen, qtype>>

probeVars == <<ppc, probe_ports, conn, probed>>

protoVars == <<apc, asig, aport, tried, aopen, aprotocols, app_idx, app_tried,
               areturned>>

vars == <<clsVars, ttlVars, scanVars, quickVars, probeVars, protoVars>>

(***************************************************************************)
(* Environment of classify_device                                          *)
(***************************************************************************)
\* ports on which a modelled host may run a service
ModelPorts == {80, 3306, 8080, 9100}

\* service names the external scan may report
ModelNames == {"http", "mysql", "unknown"}

\* scan reports: a service name for each of at most MaxEntries ports
HostTables ==
  UNION {[S -> ModelNames] :
           S \in {T \in SUBSET ModelPorts : Cardinality(T) <= MaxEntries}}

W_nginx == <<"n", "g", "i", "n", "x">>

W_Router == <<"R", "o", "u", "t", "e", "r">>

W_hp == <<"h", "p">>

W_web == <<"w", "e", "b">>

\* vocabulary hostnames are built from
Words == {W_nginx, W_Router, W_hp, W_web}

RECURSIVE Concats(_)
Concats(n) ==
  IF n = 0 THEN {<<>>}
  ELSE Concats(n - 1) \cup {a \o w : a \in Concats(n - 1), w \in Words}

\* the 'hostname' entry of a candidate: a string, None, or no entry at all
StrHostname(s) == [kind |-> "str", chars |-> s]

NoneHostname == [kind |-> "none", chars |-> <<>>]

MissingHostname == [kind |-> "missing", chars |-> <<>>]

Hostnames ==
  {StrHostname(s) : s \in Concats(MaxWords)} \cup {NoneHostname, MissingHostname}

(***************************************************************************)
(* DeviceClassifier._quick_port_check / _get_open_ports / _get_services    *)
(***************************************************************************)
\* fallback port list of _get_open_ports
common_ports ==
  <<21, 22, 23, 25, 53, 80, 110, 143, 443, 993, 995, 3306, 3389, 5432, 8080>>

\* check_port of every listed port, gathered in list order; open is the set
\* of ports whose connection was established within the timeout
QuickPortCheck(open, ports) == SelectSeq(ports, LAMBDA p : p \in open)

\* outcome is what self.nm.scan did: "ok", "absent" (host not in the scan
\* result) or "raise"
GetOpenPorts(outcome, table) ==
  CASE outcome = "ok"     -> SortedSeq(DOMAIN table)
    [] outcome = "absent" -> <<>>
    [] outcome = "raise"  -> QuickPortCheck(DOMAIN table, common_ports)

GetServices(outcome, table) ==
  CASE outcome = "ok"     -> [i \in 1..Cardinality(DOMAIN table) |->
                                table[SortedSeq(DOMAIN table)[i]]]
    [] outcome = "absent" -> <<>>
    [] outcome = "raise"  -> <<>>

ScanOutcomes == {"ok", "absent", "raise"}

(***************************************************************************)
(* DeviceClassifier.classify_device                                        *)
(***************************************************************************)
RECURSIVE CountIn(_, _)
\* for x in xs: if x in S: count += 1
CountIn(xs, S) ==
  IF xs = <<>> THEN 0
  ELSE (IF Head(xs) \in S THEN 1 ELSE 0) + CountIn(Tail(xs), S)

RECURSIVE CountSubstr(_, _)
\* for pattern_str in pats: if pattern_str in hostname: count += 1
CountSubstr(pats, hostname) ==
  IF pats = <<>> THEN 0
  ELSE (IF IsSubstr(Head(pats), hostname) THEN 1 ELSE 0)
       + CountSubstr(Tail(pats), hostname)

\* faulty variant: port and service weights exchanged
PatternScoreSwapped(pattern, ports, svcs, hostname) ==
    ServiceWeight * CountIn(ports, pattern.ports)
  + PortWeight * CountIn(svcs, pattern.services)
  + HostnameWeight * CountSubstr(pattern.patterns, lower(hostname))

\* faulty variant: the hostname contributes nothing
PatternScoreNoHostname(pattern, ports, svcs, hostname) ==
    PortWeight * CountIn(ports, pattern.ports)
  + ServiceWeight * CountIn(svcs, pattern.services)

\* one iteration of the scoring loop; hostname is device.get('hostname', '')
PatternScore(pattern, ports, svcs, hostname) ==
    PortWeight * CountIn(ports, pattern.ports)
  + ServiceWeight * CountIn(svcs, pattern.services)
  + HostnameWeight * CountSubstr(pattern.patterns, lower(hostname))

RECURSIVE LastMaxScan(_, _, _)
LastMaxScan(scores, i, best) ==
  IF i > Len(scores) THEN best
  ELSE LastMaxScan(scores, i + 1, IF scores[i] >= scores[best] THEN i ELSE best)

\* faulty variant: the last of several maximal items wins
BestMatchLast(scores) == LastMaxScan(scores, 2, 1)

RECURSIVE MaxScan(_, _, _)
\* max(items, key=score) scanning left to right: a later item replaces the
\* best one so far only when its score is strictly greater
MaxScan(scores, i, best) ==
  IF i > Len(scores) THEN best
  ELSE MaxScan(scores, i + 1, IF scores[i] > scores[best] THEN i ELSE best)

\* index of max(device_score.items(), key=lambda x: x[1]): the first maximal
\* item in iteration order
BestMatch(scores) == MaxScan(scores, 2, 1)

\* faulty variant: the best match is returned whatever its score
ReturnedTypeNoThreshold(name, score) == name

\* if best_match[1] > 0: return best_match[0]; otherwise 'unknown'
ReturnedType(name, score) == IF score > 0 THEN name ELSE "unknown"

\* the value and locals of classify_device; raised is the AttributeError of
\* None.lower() when the 'hostname' entry is None
classify_device(dev, ports, svcs) ==
  IF dev.hostname.kind = "none"
  THEN [raised |-> TRUE, device_score |-> <<>>, device_type |-> None]
  ELSE LET hostname == dev.hostname.chars
           scores == [i \in DOMAIN device_patterns |->
                        PatternScore(device_patterns[i], ports, svcs, hostname)]
           best == BestMatch(scores)
       IN [raised |-> FALSE,
           device_score |-> scores,
           device_type |-> ReturnedType(device_patterns[best].name, scores[best])]

InitClassify ==
  /\ cpc = "get_open_ports"
  /\ host \in HostTables
  /\ device \in {[ip |-> 1, hostname |-> h] : h \in Hostnames}
  /\ open_ports = <<>>
  /\ services = <<>>
  /\ device_score = <<>>
  /\ device_type = None

IdleClassify ==
  /\ cpc = "idle"
  /\ host = <<>>
  /\ device = [ip |-> 1, hostname |-> MissingHostname]
  /\ open_ports = <<>>
  /\ services = <<>>
  /\ device_score = <<>>
  /\ device_type = None

\* open_ports = await self._get_open_ports(ip)
ClassifyGetOpenPorts ==
  /\ cpc = "get_open_ports"
  /\ \E outcome \in ScanOutcomes : open_ports' = GetOpenPorts(outcome, host)
  /\ cpc' = "get_services"
  /\ UNCHANGED <<host, device, services, device_score, device_type>>

\* services = await self._get_services(ip)
ClassifyGetServices ==
  /\ cpc = "get_services"
  /\ \E outcome \in ScanOutcomes : services' = GetServices(outcome, host)
  /\ cpc' = "score"
  /\ UNCHANGED <<host, device, open_ports, device_score, device_type>>

\* the scoring loop and the return
ClassifyScore ==
  /\ cpc = "score"
  /\ LET r == classify_device(device, open_ports, services) IN
       /\ cpc' = IF r.raised THEN "raised" ELSE "returned"
       /\ device_score' = r.device_score
       /\ device_type' = r.device_type
  /\ UNCHANGED <<host, device, open_ports, services>>

(***************************************************************************)
(* DeviceClassifier.detect_os / _detect_os_by_ttl                          *)
(***************************************************************************)
L_ttl == <<"t", "t", "l", "=">>

L_TTL == <<"T", "T", "L", "=">>

L_TimeToLive == <<"T", "i", "m", "e", " ", "t", "o", " ", "l", "i", "v", "e", "=">>

L_hlim == <<"h", "l", "i", "m", "=">>

\* ttl_patterns of _detect_os_by_ttl, without the (\d+) group
ttl_patterns == <<L_ttl, L_TTL, L_TimeToLive>>

\* labels that may precede the number in the ping output
PingLabels == {L_ttl, L_TTL, L_TimeToLive, L_hlim}

RECURSIVE DigitStrings(_)
DigitStrings(n) ==
  IF n = 0 THEN {<<>>}
  ELSE DigitStrings(n - 1)
       \cup {ds \o <<d>> : ds \in DigitStrings(n - 1), d \in 0..9}

\* what the ping subprocess did: create_subprocess_exec raised, it exited
\* with a non-zero code, or it exited with 0 and printed label and digits
PingResults ==
  {[outcome |-> o, label |-> <<>>, digits |-> <<>>] : o \in {"raise", "fail"}}
  \cup {[outcome |-> "ok", label |-> l, digits |-> ds] :
          l \in PingLabels, ds \in DigitStrings(MaxDigits)}

\* outcomes of the external OS scan: it raised, the host is not in the scan
\* result, the host has no OS match, or it has one
OsScanOutcomes == {"raise", "absent", "nomatch", "match"}

\* os_info[0]['name'] of a host with an OS match
OsMatchName == "Linux 5.4"

RECURSIVE ParseInt(_)
\* int() of a string of decimal digits
ParseInt(ds) ==
  IF ds = <<>> THEN 0
  ELSE 10 * ParseInt(SubSeq(ds, 1, Len(ds) - 1)) + ds[Len(ds)]

\* re.search(pattern + (\d+), output, re.IGNORECASE)
TTLMatch(pattern, out) ==
  /\ Len(out.digits) >= 1
  /\ Len(out.label) >= Len(pattern)
  /\ SubSeq(lower(out.label), Len(out.label) - Len(pattern) + 1, Len(out.label))
       = lower(pattern)

\* the TTL read from the ping output, -1 when no pattern matches
ParsedTTL(out) ==
  IF out.outcome = "ok" /\ \E i \in DOMAIN ttl_patterns : TTLMatch(ttl_patterns[i], out)
  THEN ParseInt(out.digits)
  ELSE -1

\* faulty variant: the boundaries belong to the next family
TTLFamilyStrict(t) ==
  IF t < 64 THEN "Linux/macOS"
  ELSE IF t < 128 THEN "Windows"
  ELSE IF t < 255 THEN "Network Device"
  ELSE "Unknown"

\* the if/elif ladder on the parsed TTL
TTLFamily(t) ==
  IF t <= 64 THEN "Linux/macOS"
  ELSE IF t <= 128 THEN "Windows"
  ELSE IF t <= 255 THEN "Network Device"
  ELSE "Unknown"

\* faulty variant: a ping without a TTL is reported as an estimate
DetectOsByTTLUnknown(out) ==
  IF ParsedTTL(out) >= 0 THEN TTLFamily(ParsedTTL(out)) ELSE "Unknown"

\* value of _detect_os_by_ttl
DetectOsByTTL(out) ==
  IF ParsedTTL(out) >= 0 THEN TTLFamily(ParsedTTL(out)) ELSE None

\* value of detect_os: the first OS match of the external scan, else the TTL
\* estimate
DetectOs(o, out) == IF o = "match" THEN OsMatchName ELSE DetectOsByTTL(out)

InitTTL ==
  /\ tpc = "os_scan"
  /\ os_scan = None
  /\ ping = [outcome |-> None, label |-> <<>>, digits |-> <<>>]
  /\ ttl = -1
  /\ operating_system = None

IdleTTL ==
  /\ tpc = "idle"
  /\ os_scan = None
  /\ ping = [outcome |-> None, label |-> <<>>, digits |-> <<>>]
  /\ ttl = -1
  /\ operating_system = None

\* detect_os up to its fallback: the external OS scan
DetectOsScan ==
  /\ tpc = "os_scan"
  /\ \E o \in OsScanOutcomes :
       /\ os_scan' = o
       /\ IF o = "match"
          THEN tpc' = "returned" /\ operating_system' = DetectOs(o, ping)
          ELSE tpc' = "ttl" /\ UNCHANGED operating_system
  /\ UNCHANGED <<ping, ttl>>

\* return await self._detect_os_by_ttl(ip)
DetectOsPing ==
  /\ tpc = "ttl"
  /\ \E out \in PingResults :
       /\ ping' = out
       /\ ttl' = ParsedTTL(out)
       /\ operating_system' = DetectOsByTTL(out)
  /\ tpc' = "returned"
  /\ UNCHANGED os_scan

(***************************************************************************)
(* NetworkScanner.discover_devices / _ping_discovery                       *)
(***************************************************************************)
\* addresses of the largest target network
Addr == 1..NumAddr

\* a target string: well-formed ones denote the addresses network.hosts()
\* enumerates, a malformed one denotes none and is rejected by ip_network
Targets ==
  {[wellformed |-> TRUE, addrs |-> 1..k] : k \in 1..NumAddr}
  \cup {[wellformed |-> FALSE, addrs |-> {}]}

\* what the ARP table and the reverse lookup may yield for an up host of the
\* primary pass: neither a MAC nor a name, or both
CandidateFacts ==
  {[mac |-> None, hostname |-> NoneHostname],
   [mac |-> "00:0C:29:12:34:56", hostname |-> StrHostname(W_nginx)]}

\* the device_info dict of one up host
Candidate(a, mac, hostname) ==
  [ip |-> a, mac |-> mac, hostname |-> hostname, state |-> "up"]

\* faulty variant: every ping that ran to completion counts as a reply
PingKeptAlways(outcome) == outcome # "error"

\* ping_host returns a candidate exactly when the ping exited with code 0
PingKept(outcome) == outcome = "reply"

\* the filter over the gathered ping_host results, in network.hosts() order
GatherPings(res) ==
  LET up == SortedSeq({a \in DOMAIN res : PingKept(res[a])})
  IN [i \in DOMAIN up |-> Candidate(up[i], None, NoneHostname)]

InitScan ==
  /\ pc = "discover"
  /\ config \in {[max_concurrent_scans |-> n] : n \in 1..MaxConfigConcurrent}
  /\ target \in Targets
  /\ mode \in {"local", "discovery"}
  /\ detailed \in BOOLEAN
  /\ primary = None
  /\ probes = {}
  /\ pings = <<>>
  /\ devices = <<>>
  /\ dispatched = 0
  /\ stage = <<>>
  /\ result = <<>>
  /\ scan_results = <<>>
  /\ error = None
  /\ started = <<>>
  /\ absorbed = <<>>

IdleScan ==
  /\ pc = "idle"
  /\ config = [max_concurrent_scans |-> 1]
  /\ target = [wellformed |-> FALSE, addrs |-> {}]
  /\ mode = "discovery"
  /\ detailed = FALSE
  /\ primary = None
  /\ probes = {}
  /\ pings = <<>>
  /\ devices = <<>>
  /\ dispatched = 0
  /\ stage = <<>>
  /\ result = <<>>
  /\ scan_results = <<>>
  /\ error = None
  /\ started = <<>>
  /\ absorbed = <<>>

\* faulty variant: the address of the candidate is not carried over
ScanResultNoAddress(ip, mac, scan_mode) ==
  [ip_address |-> 0, mac_address |-> mac, hostname |-> NoneHostname,
   manufacturer |-> None, device_type |-> None, operating_system |-> None,
   open_ports |-> <<>>, services |-> <<>>, protocols |-> {},
   response_time |-> None, scan_mode |-> scan_mode]

\* ScanResult(ip_address=..., mac_address=..., scan_mode=...) after
\* __post_init__; hostname keeps its default
ScanResult(ip, mac, scan_mode) ==
  [ip_address |-> ip, mac_address |-> mac, hostname |-> NoneHostname,
   manufacturer |-> None, device_type |-> None, operating_system |-> None,
   open_ports |-> <<>>, services |-> <<>>, protocols |-> {},
   response_time |-> None, scan_mode |-> scan_mode]

\* the candidate list is known: the pipelines are queued behind the for loop
StartDispatch(devs) ==
  /\ devices' = devs
  /\ stage' = [i \in DOMAIN devs |-> "queued"]
  /\ result' = [i \in DOMAIN devs |-> ScanResult(devs[i].ip, None, "unknown")]
  /\ started' = [i \in DOMAIN devs |-> <<>>]
  /\ absorbed' = [i \in DOMAIN devs |-> {}]
  /\ pc' = "dispatch"

\* discover_devices, try block: the external enumeration scan is issued with
\* the target as given, and the up hosts become candidates
DiscoverPrimaryOk ==
  /\ pc = "discover"
  /\ primary' = "ok"
  /\ probes' = probes \cup {"enumeration"}
  /\ \E up \in SUBSET target.addrs :
       \E facts \in [up -> CandidateFacts] :
         StartDispatch([i \in 1..Cardinality(up) |->
                          Candidate(SortedSeq(up)[i],
                                    facts[SortedSeq(up)[i]].mac,
                                    facts[SortedSeq(up)[i]].hostname)])
  /\ UNCHANGED <<config, target, mode, detailed, pings, dispatched,
                 scan_results, error>>

\* discover_devices, except block entered: the external scan raised
DiscoverPrimaryRaises ==
  /\ pc = "discover"
  /\ primary' = "raise"
  /\ probes' = probes \cup {"enumeration"}
  /\ pc' = "ping_discovery"
  /\ UNCHANGED <<config, target, mode, detailed, pings, devices, dispatched,
                 stage, result, scan_results, error, started, absorbed>>

\* _ping_discovery: ipaddress.ip_network(target, strict=False); a malformed
\* target raises ValueError out of the except block and out of scan_network
PingDiscoveryStart ==
  /\ pc = "ping_discovery"
  /\ IF target.wellformed
     THEN /\ pings' = [a \in target.addrs |-> "pending"]
          /\ pc' = "pinging"
          /\ UNCHANGED error
     ELSE /\ pc' = "raised"
          /\ error' = "ValueError"
          /\ UNCHANGED pings
  /\ UNCHANGED <<config, target, mode, detailed, primary, probes, devices,
                 dispatched, stage, result, scan_results, started, absorbed>>

\* ping_host(ip): the ping subprocess replied, did not reply, or could not be
\* run
PingHost(a) ==
  /\ pc = "pinging"
  /\ a \in DOMAIN pings
  /\ pings[a] = "pending"
  /\ \E outcome \in {"reply", "noreply", "error"} :
       /\ pings' = [pings EXCEPT ![a] = outcome]
       /\ probes' = IF outcome = "error" THEN probes ELSE probes \cup {"ping"}
  /\ UNCHANGED <<pc, config, target, mode, detailed, primary, devices,
                 dispatched, stage, result, scan_results, error, started, absorbed>>

\* asyncio.gather returned: the replies become the candidate list
PingDiscoveryGather ==
  /\ pc = "pinging"
  /\ \A a \in DOMAIN pings : pings[a] # "pending"
  /\ StartDispatch(GatherPings(pings))
  /\ UNCHANGED <<config, target, mode, detailed, primary, probes, pings,
                 dispatched, scan_results, error>>

(***************************************************************************)
(* Collaborators of the per-host pipelines                                 *)
(***************************************************************************)
\* MACLookup.get_manufacturer: vendor of the MAC's OUI prefix, "Unknown" when
\* the prefix is not in the table
get_manufacturer(mac) ==
  IF mac = "00:0C:29:12:34:56" THEN "VMware" ELSE "Unknown"

\* ports a host of a scan_network run may accept connections on
LivePorts == {80, 9100}

\* port list of quick_classify
quick_classify_ports == <<22, 23, 80, 443, 3389, 9100>>

\* faulty variant: the remote-desktop rule is tried before the printer rule
quick_classifyRdpFirst(open) ==
  LET found == Range(QuickPortCheck(open, quick_classify_ports)) IN
  IF 3389 \in found THEN "workstation"
  ELSE IF 9100 \in found THEN "printer"
  ELSE IF 22 \in found /\ 80 \in found THEN "server"
  ELSE IF 80 \in found \/ 443 \in found THEN "device"
  ELSE "unknown"

\* the decision list of quick_classify over the ports found open
quick_classify(open) ==
  LET found == Range(QuickPortCheck(open, quick_classify_ports)) IN
  IF 9100 \in found THEN "printer"
  ELSE IF 3389 \in found THEN "workstation"
  ELSE IF 22 \in found /\ 80 \in found THEN "server"
  ELSE IF 80 \in found \/ 443 \in found THEN "device"
  ELSE "unknown"

\* faulty variant: port 80 is listed twice
discovery_common_portsRepeated ==
  <<21, 22, 23, 25, 53, 80, 80, 110, 143, 443, 993, 995, 3306, 3389, 5432, 8080>>

\* port list _discovery_scan hands to quick_port_scan
discovery_common_ports ==
  <<21, 22, 23, 25, 53, 80, 110, 143, 443, 993, 995, 3306, 3389, 5432, 8080>>

\* NetworkScanner.quick_port_scan: the ports whose check_port returned them,
\* in list order
quick_port_scan(open, ports) == SelectSeq(ports, LAMBDA p : p \in open)

\* common_services of _basic_port_scan
common_services ==
  (21 :> "ftp") @@ (22 :> "ssh") @@ (23 :> "telnet") @@ (25 :> "smtp")
  @@ (53 :> "dns") @@ (80 :> "http") @@ (110 :> "pop3") @@ (143 :> "imap")
  @@ (443 :> "https") @@ (993 :> "imaps") @@ (995 :> "pop3s")
  @@ (3306 :> "mysql") @@ (3389 :> "rdp") @@ (5432 :> "postgresql")
  @@ (8080 :> "http-proxy") @@ (8443 :> "https-alt")

\* NetworkScanner._basic_port_scan: the listed ports that accepted a
\* connection, with their conventional names
BasicPortScan(open) ==
  [p \in (DOMAIN common_services) \cap open |-> common_services[p]]

\* NetworkScanner.scan_services: the external scan's report, or the basic
\* port scan when the external scan raised
scan_services(outcome, table) ==
  CASE outcome = "ok"     -> table
    [] outcome = "absent" -> <<>>
    [] outcome = "raise"  -> BasicPortScan(DOMAIN table)

\* scan reports of the hosts of a scan_network run
PipelineTables ==
  {<<>>, (80 :> "http"), (80 :> "http") @@ (3306 :> "mysql")}

\* Config.quick_scan_ports
quick_scan_ports ==
  <<21, 22, 23, 25, 53, 80, 110, 143, 443, 993, 995, 3306, 3389, 5432, 8080,
    8443>>

\* Config.detailed_scan_ports = list(range(1, 1025))
detailed_scan_ports == 1..1024

\* ping results of the hosts of a scan_network run
PipelinePings ==
  {[outcome |-> "fail", label |-> <<>>, digits |-> <<>>],
   [outcome |-> "ok", label |-> L_ttl, digits |-> <<6, 4>>]}

\* protocol sets analyze_device may report in a scan_network run
PipelineProtocols == {{}, {"HTTP"}}

(***************************************************************************)
(* NetworkMapper.scan_network: the for loop and the per-host pipelines     *)
(***************************************************************************)
\* faulty variant: the detailed flag is ignored
FullPathLocalOnly == mode = "local"

\* if mode == "local" and detailed
FullPath == mode = "local" /\ detailed

\* pipelines that have started and neither returned nor raised
Inflight == {i \in DOMAIN stage : stage[i] \notin {"queued", "finished", "raised"}}

\* faulty variant: the loop starts the next pipeline without awaiting
LoopMayAdvanceUnawaited == TRUE

\* result = await self._..._scan(device): the loop body starts the next
\* pipeline only after the previous one has returned
LoopMayAdvance == Inflight = {}

\* a step of pipeline i ended without raising
Advance(i, r, next) ==
  /\ result' = [result EXCEPT ![i] = r]
  /\ stage' = [stage EXCEPT ![i] = next]
  /\ started' = [started EXCEPT ![i] = Append(@, next)]
  /\ UNCHANGED <<pc, scan_results, error, absorbed>>

\* faulty variant: the except clause around the step is missing
AdvanceAbsorbingUncaught(i, r, next, step) ==
  /\ stage' = [stage EXCEPT ![i] = "raised"]
  /\ pc' = "raised"
  /\ error' = "Exception"
  /\ UNCHANGED <<result, scan_results, started, absorbed>>

\* a step of pipeline i raised inside its try block and the except clause
\* put the fallback value: the pipeline goes on with the next step
AdvanceAbsorbing(i, r, next, step) ==
  /\ result' = [result EXCEPT ![i] = r]
  /\ stage' = [stage EXCEPT ![i] = next]
  /\ started' = [started EXCEPT ![i] = Append(@, next)]
  /\ absorbed' = [absorbed EXCEPT ![i] = @ \cup {step}]
  /\ UNCHANGED <<pc, scan_results, error>>

\* faulty variant: the result is put at the front of the list
FinishPrepend(i, r) ==
  /\ result' = [result EXCEPT ![i] = r]
  /\ stage' = [stage EXCEPT ![i] = "finished"]
  /\ scan_results' = <<r>> \o scan_results
  /\ UNCHANGED <<pc, error, started, absorbed>>

\* the last step of pipeline i returned: scan_results.append(result)
Finish(i, r) ==
  /\ result' = [result EXCEPT ![i] = r]
  /\ stage' = [stage EXCEPT ![i] = "finished"]
  /\ scan_results' = Append(scan_results, r)
  /\ UNCHANGED <<pc, error, started, absorbed>>

\* a step of pipeline i raised: nothing catches it before scan_network
Abort(i, exc) ==
  /\ stage' = [stage EXCEPT ![i] = "raised"]
  /\ pc' = "raised"
  /\ error' = exc
  /\ UNCHANGED <<result, scan_results, started, absorbed>>

\* the last step of pipeline i raised inside its try block and the except
\* clause put the fallback value: scan_results.append(result)
FinishAbsorbing(i, r, step) ==
  /\ result' = [result EXCEPT ![i] = r]
  /\ stage' = [stage EXCEPT ![i] = "finished"]
  /\ scan_results' = Append(scan_results, r)
  /\ absorbed' = [absorbed EXCEPT ![i] = @ \cup {step}]
  /\ UNCHANGED <<pc, error, started>>

\* for device in devices: the ScanResult is constructed
Dispatch(i) ==
  /\ pc = "dispatch"
  /\ i = dispatched + 1
  /\ i \in DOMAIN devices
  /\ LoopMayAdvance
  /\ dispatched' = i
  /\ result' = [result EXCEPT ![i] =
                  ScanResult(devices[i].ip, devices[i].mac,
                             IF FullPath THEN "local_detailed" ELSE "discovery")]
  /\ stage' = [stage EXCEPT ![i] = "vendor"]
  /\ started' = [started EXCEPT ![i] = <<"vendor">>]
  /\ UNCHANGED <<pc, config, target, mode, detailed, primary, probes, pings,
                 devices, scan_results, error, absorbed>>

\* if result.mac_address: result.manufacturer = await get_manufacturer(...)
Vendor(i) ==
  /\ pc = "dispatch"
  /\ i \in DOMAIN stage
  /\ stage[i] = "vendor"
  /\ LET next == IF FullPath THEN "classify" ELSE "quick_classify" IN
     IF result[i].mac_address = None
     THEN Advance(i, result[i], next)
     ELSE \/ Advance(i, [result[i] EXCEPT
                           !.manufacturer =
                              get_manufacturer(result[i].mac_address)],
                     next)
          \* the awaited lookup raised: caught in _discovery_scan only
          \/ IF FullPath
             THEN Abort(i, "Exception")
             ELSE AdvanceAbsorbing(i, result[i], next, "vendor")
  /\ UNCHANGED <<config, target, mode, detailed, primary, probes, pings,
                 devices, dispatched>>

\* _detailed_local_scan: result.device_type = await classify_device(device)
Classify(i) ==
  /\ pc = "dispatch"
  /\ i \in DOMAIN stage
  /\ stage[i] = "classify"
  /\ \E table \in PipelineTables, po \in ScanOutcomes, so \in ScanOutcomes :
       LET r == classify_device(devices[i], GetOpenPorts(po, table),
                                GetServices(so, table))
       IN /\ IF r.raised
             THEN Abort(i, "AttributeError")
             ELSE Advance(i, [result[i] EXCEPT !.device_type = r.device_type],
                          "detect_os")
          /\ probes' = probes \cup {"enumeration"}
                       \cup (IF po = "raise" THEN {"connect"} ELSE {})
  /\ UNCHANGED <<config, target, mode, detailed, primary, pings, devices,
                 dispatched>>

\* _detailed_local_scan: result.operating_system = await detect_os(device)
DetectOsStep(i) ==
  /\ pc = "dispatch"
  /\ i \in DOMAIN stage
  /\ stage[i] = "detect_os"
  /\ \E o \in OsScanOutcomes, out \in PipelinePings :
       /\ Advance(i, [result[i] EXCEPT !.operating_system = DetectOs(o, out)],
                  "protocols")
       /\ probes' = probes \cup {"enumeration"}
                    \cup (IF o # "match" THEN {"ping"} ELSE {})
  /\ UNCHANGED <<config, target, mode, detailed, primary, pings, devices,
                 dispatched>>

\* _detailed_local_scan: result.protocols = await analyze_device(ip)
Protocols(i) ==
  /\ pc = "dispatch"
  /\ i \in DOMAIN stage
  /\ stage[i] = "protocols"
  /\ \E ps \in PipelineProtocols :
       Advance(i, [result[i] EXCEPT !.protocols = ps], "services")
  /\ probes' = probes \cup {"connect"}
  /\ UNCHANGED <<config, target, mode, detailed, primary, pings, devices,
                 dispatched>>

\* faulty variant: open_ports is taken from the scan report even when
\* scan_services returned something else
ServicesPortsOfReport(i) ==
  /\ pc = "dispatch"
  /\ i \in DOMAIN stage
  /\ stage[i] = "services"
  /\ \E table \in PipelineTables, o \in ScanOutcomes :
       /\ Advance(i, [result[i] EXCEPT
                        !.services = scan_services(o, table),
                        !.open_ports = SortedSeq(DOMAIN table)],
                  "connections")
       /\ probes' = probes \cup {"enumeration"}
                    \cup (IF o = "raise" THEN {"connect"} ELSE {})
  /\ UNCHANGED <<config, target, mode, detailed, primary, pings, devices,
                 dispatched>>

\* _detailed_local_scan: services = await scan_services(ip);
\* result.open_ports = list(services.keys())
Services(i) ==
  /\ pc = "dispatch"
  /\ i \in DOMAIN stage
  /\ stage[i] = "services"
  /\ \E table \in PipelineTables, o \in ScanOutcomes :
       /\ Advance(i, [result[i] EXCEPT
                        !.services = scan_services(o, table),
                        !.open_ports = SortedSeq(DOMAIN scan_services(o, table))],
                  "connections")
       /\ probes' = probes \cup {"enumeration"}
                    \cup (IF o = "raise" THEN {"connect"} ELSE {})
  /\ UNCHANGED <<config, target, mode, detailed, primary, pings, devices,
                 dispatched>>

\* _detailed_local_scan: connections = await analyze_connections(ip);
\* result.response_time = connections.get('response_time'); return result
Connections(i) ==
  /\ pc = "dispatch"
  /\ i \in DOMAIN stage
  /\ stage[i] = "connections"
  /\ \E rt \in {None, "measured"} :
       Finish(i, [result[i] EXCEPT !.response_time = rt])
  /\ probes' = probes \cup {"connect"}
  /\ UNCHANGED <<config, target, mode, detailed, primary, pings, devices,
                 dispatched>>

\* _discovery_scan: result.device_type = await quick_classify(device)
QuickClassify(i) ==
  /\ pc = "dispatch"
  /\ i \in DOMAIN stage
  /\ stage[i] = "quick_classify"
  /\ \/ \E open \in SUBSET LivePorts :
          Advance(i, [result[i] EXCEPT !.device_type = quick_classify(open)],
                  "quick_port_scan")
     \* except Exception: result.device_type = "unknown"
     \/ AdvanceAbsorbing(i, [result[i] EXCEPT !.device_type = "unknown"],
                         "quick_port_scan", "quick_classify")
  /\ probes' = probes \cup {"connect"}
  /\ UNCHANGED <<config, target, mode, detailed, primary, pings, devices,
                 dispatched>>

\* _discovery_scan: result.open_ports = await quick_port_scan(ip,
\* common_ports); return result
QuickPortScan(i) ==
  /\ pc = "dispatch"
  /\ i \in DOMAIN stage
  /\ stage[i] = "quick_port_scan"
  /\ \/ \E open \in SUBSET LivePorts :
          Finish(i, [result[i] EXCEPT
                       !.open_ports =
                          quick_port_scan(open, discovery_common_ports)])
     \* except Exception: result.open_ports = []
     \/ FinishAbsorbing(i, [result[i] EXCEPT !.open_ports = <<>>],
                        "quick_port_scan")
  /\ probes' = probes \cup {"connect"}
  /\ UNCHANGED <<config, target, mode, detailed, primary, pings, devices,
                 dispatched>>

\* faulty variant: an empty candidate list is reported as an error
ReturnRaisesOnEmpty ==
  /\ pc = "dispatch"
  /\ dispatched = Len(devices)
  /\ Inflight = {}
  /\ IF devices = <<>>
     THEN pc' = "raised" /\ error' = "RuntimeError"
     ELSE pc' = "returned" /\ UNCHANGED error
  /\ UNCHANGED <<config, target, mode, detailed, primary, probes, pings,
                 devices, dispatched, stage, result, scan_results, started, absorbed>>

\* return scan_results: the for loop has run over every candidate
Return ==
  /\ pc = "dispatch"
  /\ dispatched = Len(devices)
  /\ Inflight = {}
  /\ pc' = "returned"
  /\ UNCHANGED <<config, target, mode, detailed, primary, probes, pings,
                 devices, dispatched, stage, result, scan_results, error,
                 started, absorbed>>

(***************************************************************************)
(* DeviceClassifier.quick_classify on one host                             *)
(***************************************************************************)
\* ports the host may accept connections on: the probed ones and one more
QuickUniverse == Range(quick_classify_ports) \cup {8080}

InitQuick ==
  /\ qpc = "check"
  /\ qopen \in SUBSET QuickUniverse
  /\ qtype = None

IdleQuick ==
  /\ qpc = "idle"
  /\ qopen = {}
  /\ qtype = None

\* open_ports = await self._quick_port_check(ip, common_ports) and the
\* if/elif ladder
QuickClassifyReturn ==
  /\ qpc = "check"
  /\ qtype' = quick_classify(qopen)
  /\ qpc' = "returned"
  /\ UNCHANGED qopen

(***************************************************************************)
(* NetworkScanner.quick_port_scan on one host                              *)
(***************************************************************************)
\* check_port's None
NoPort == 0

\* ways asyncio.open_connection under wait_for ends
ConnectOutcomes == {"established", "refused", "unreachable", "timeout"}

\* ways writer.close() / await writer.wait_closed() ends
CloseOutcomes == {"closed", "close_raised"}

\* a check_port task has returned
CheckPortDone(st) == st \in (ConnectOutcomes \ {"established"}) \cup CloseOutcomes

\* faulty variant: a connection attempt that timed out counts as open
check_portTimeoutOpen(port, st) ==
  IF st \in {"closed", "timeout"} THEN port ELSE NoPort

\* ports with a connection attempt in flight or a connection not yet closed
Outstanding == {p \in DOMAIN conn : conn[p] \in {"pending", "established"}}

\* value of check_port: the port when the try block ran through the close,
\* None when anything in it raised
check_port(port, st) == IF st = "closed" THEN port ELSE NoPort

InitProbe ==
  /\ ppc = "gather"
  /\ probe_ports \in {SubSeq(discovery_common_ports, 1, k) : k \in 0..MaxProbePorts}
  /\ conn = [p \in Range(probe_ports) |-> "queued"]
  /\ probed = <<>>

IdleProbe ==
  /\ ppc = "idle"
  /\ probe_ports = <<>>
  /\ conn = <<>>
  /\ probed = <<>>

\* the task of check_port(port) gets its first turn and issues
\* asyncio.open_connection; nothing makes it wait for the other tasks
ProbeStart(p) ==
  /\ ppc = "gather"
  /\ p \in DOMAIN conn
  /\ conn[p] = "queued"
  /\ conn' = [conn EXCEPT ![p] = "pending"]
  /\ UNCHANGED <<ppc, probe_ports, probed>>

\* check_port(port): await asyncio.wait_for(asyncio.open_connection(...))
ProbeConnect(p) ==
  /\ ppc = "gather"
  /\ p \in DOMAIN conn
  /\ conn[p] = "pending"
  /\ \E o \in ConnectOutcomes : conn' = [conn EXCEPT ![p] = o]
  /\ UNCHANGED <<ppc, probe_ports, probed>>

\* check_port(port): writer.close(); await writer.wait_closed()
ProbeClose(p) ==
  /\ ppc = "gather"
  /\ p \in DOMAIN conn
  /\ conn[p] = "established"
  /\ \E o \in CloseOutcomes : conn' = [conn EXCEPT ![p] = o]
  /\ UNCHANGED <<ppc, probe_ports, probed>>

\* results = await asyncio.gather(...); the filter loop; return open_ports
ProbeGather ==
  /\ ppc = "gather"
  /\ \A p \in DOMAIN conn : CheckPortDone(conn[p])
  /\ probed' = quick_port_scan({p \in DOMAIN conn : check_port(p, conn[p]) = p},
                               probe_ports)
  /\ ppc' = "returned"
  /\ UNCHANGED <<probe_ports, conn>>

(***************************************************************************)
(* ProtocolAnalyzer.analyze_device on one host                             *)
(***************************************************************************)
\* _load_protocol_patterns, in the insertion order of the dict; a byte is a
\* one-character string, a non-printable byte is written "xNN"
protocol_patterns ==
  <<
    [key |-> "http",
     ports |-> <<80, 8080, 8443>>,
     patterns |-> <<<<"G", "E", "T", " ">>,
                    <<"P", "O", "S", "T", " ">>,
                    <<"H", "T", "T", "P", "/">>>>,
     name |-> "HTTP"],
    [key |-> "https",
     ports |-> <<443, 8443>>,
     patterns |-> <<<<"x16", "x03">>,
                    <<"x17", "x03">>>>,
     name |-> "HTTPS"],
    [key |-> "ssh",
     ports |-> <<22>>,
     patterns |-> <<<<"S", "S", "H", "-">>>>,
     name |-> "SSH"],
    [key |-> "ftp",
     ports |-> <<21>>,
     patterns |-> <<<<"2", "2", "0", " ">>,
                    <<"F", "T", "P">>>>,
     name |-> "FTP"],
    [key |-> "smtp",
     ports |-> <<25, 587>>,
     patterns |-> <<<<"2", "2", "0", " ">>,
                    <<"S", "M", "T", "P">>>>,
     name |-> "SMTP"],
    [key |-> "pop3",
     ports |-> <<110, 995>>,
     patterns |-> <<<<"+", "O", "K", " ">>,
                    <<"P", "O", "P", "3">>>>,
     name |-> "POP3"],
    [key |-> "imap",
     ports |-> <<143, 993>>,
     patterns |-> <<<<"*", " ", "O", "K", " ">>,
                    <<"I", "M", "A", "P">>>>,
     name |-> "IMAP"],
    [key |-> "dns",
     ports |-> <<53>>,
     patterns |-> <<<<"x00", "x01">>,
                    <<"x00", "x02">>>>,
     name |-> "DNS"],
    [key |-> "mysql",
     ports |-> <<3306>>,
     patterns |-> <<<<"x0a">>>>,
     name |-> "MySQL"],
    [key |-> "postgresql",
     ports |-> <<5432>>,
     patterns |-> <<<<"x00", "x00", "x00", "x08">>>>,
     name |-> "PostgreSQL"],
    [key |-> "rdp",
     ports |-> <<3389>>,
     patterns |-> <<<<"x03", "x00">>>>,
     name |-> "RDP"]
  >>

\* app_protocols of _detect_additional_protocols
app_protocols ==
  <<[port |-> 8080, name |-> "HTTP-Proxy"],
    [port |-> 8443, name |-> "HTTPS-Alt"],
    [port |-> 8888, name |-> "HTTP-Alt"],
    [port |-> 9000, name |-> "Jenkins"],
    [port |-> 9090, name |-> "HTTP-Alt"],
    [port |-> 27017, name |-> "MongoDB"],
    [port |-> 6379, name |-> "Redis"],
    [port |-> 11211, name |-> "Memcached"],
    [port |-> 5672, name |-> "AMQP"],
    [port |-> 1883, name |-> "MQTT"],
    [port |-> 8883, name |-> "MQTT-SSL"]>>

\* the signatures analyze_device iterates over
Signatures == SubSeq(protocol_patterns, 1, MaxSignatures)

\* the entries _detect_additional_protocols iterates over
AppProtocols == SubSeq(app_protocols, 1, MaxAppProtocols)

\* what reader.read(1024) may deliver: end of stream, an HTTP status line, a
\* TLS handshake record, an SSH banner
Responses ==
  {<<>>,
   <<"H", "T", "T", "P", "/", "1", ".", "1", " ", "2", "0", "0">>,
   <<"x16", "x03", "x03">>,
   <<"S", "S", "H", "-", "2", ".", "0">>}

\* for pattern in info['patterns']: if pattern in response
PatternFound(info, response) ==
  \E k \in DOMAIN info.patterns : IsSubstr(info.patterns[k], response)

\* ways one pass of the port loop of _test_protocol ends before a response
\* is looked at
ProbeFailures == {"connect_failed", "write_failed", "read_failed", "read_timeout"}

\* failures that leave the try block before writer.close()
LeavesOpen(o) == o \in {"write_failed", "read_failed"}

\* faulty variant: only the read timeout is caught
CaughtTimeoutOnly(o) == o = "read_timeout"

\* except asyncio.TimeoutError: pass  and  except Exception: continue
Caught(o) == o \in ProbeFailures \cup {"close_raised"}

InitProto ==
  /\ apc = "test"
  /\ asig = 1
  /\ aport = 1
  /\ tried = [i \in DOMAIN Signatures |->
                [k \in DOMAIN Signatures[i].ports |-> "untested"]]
  /\ aopen = {}
  /\ aprotocols = <<>>
  /\ app_idx = 1
  /\ app_tried = [k \in DOMAIN AppProtocols |-> "untested"]
  /\ areturned = {}

IdleProto ==
  /\ apc = "idle"
  /\ asig = 1
  /\ aport = 1
  /\ tried = <<>>
  /\ aopen = {}
  /\ aprotocols = <<>>
  /\ app_idx = 1
  /\ app_tried = <<>>
  /\ areturned = {}

\* _test_protocol returned for signature asig: the for loop of
\* analyze_device takes the next signature, or goes on to
\* _detect_additional_protocols
NextSignature ==
  IF asig < Len(Signatures)
  THEN asig' = asig + 1 /\ aport' = 1 /\ apc' = "test"
  ELSE apc' = "additional" /\ UNCHANGED <<asig, aport>>

\* for port in info['ports']: the next pass, or return False
NextPort ==
  IF aport < Len(Signatures[asig].ports)
  THEN aport' = aport + 1 /\ UNCHANGED <<asig, apc>>
  ELSE NextSignature

\* one pass of the port loop of _test_protocol: connect, write the probe,
\* read, look for the patterns, close
TestPort ==
  /\ apc = "test"
  /\ LET info == Signatures[asig]
         port == info.ports[aport]
     IN \E o \in ProbeFailures \cup {"answered", "close_raised"},
           response \in Responses :
          LET outcome == IF o # "answered" THEN o
                         ELSE IF PatternFound(info, response) THEN "match"
                         ELSE "no_match"
          IN /\ tried' = [tried EXCEPT ![asig][aport] = outcome]
             /\ aopen' = IF LeavesOpen(outcome)
                          THEN aopen \cup {<<asig, port>>}
                          ELSE aopen
             /\ IF outcome = "match"
                THEN /\ aprotocols' = Append(aprotocols, info.name)
                     /\ NextSignature
                ELSE IF Caught(outcome) \/ outcome = "no_match"
                THEN /\ NextPort
                     /\ UNCHANGED aprotocols
                ELSE /\ apc' = "raised"
                     /\ UNCHANGED <<asig, aport, aprotocols>>
  /\ UNCHANGED <<app_idx, app_tried, areturned>>

\* one pass of the loop of _detect_additional_protocols: connect, close,
\* append the name
AdditionalPort ==
  /\ apc = "additional"
  /\ \E o \in {"connect_failed", "closed", "close_raised"} :
       /\ app_tried' = [app_tried EXCEPT ![app_idx] = o]
       /\ aprotocols' = IF o = "closed"
                         THEN Append(aprotocols, AppProtocols[app_idx].name)
                         ELSE aprotocols
  /\ IF app_idx < Len(AppProtocols)
     THEN app_idx' = app_idx + 1 /\ UNCHANGED apc
     ELSE apc' = "collect" /\ UNCHANGED app_idx
  /\ UNCHANGED <<asig, aport, tried, aopen, areturned>>

\* protocols.extend(additional_protocols); return list(set(protocols))
AnalyzeReturn ==
  /\ apc = "collect"
  /\ areturned' = Range(aprotocols)
  /\ apc' = "returned"
  /\ UNCHANGED <<asig, aport, tried, aopen, aprotocols, app_idx, app_tried>>

(***************************************************************************)
(* Specifications                                                          *)
(***************************************************************************)
Init == InitScan /\ IdleClassify /\ IdleTTL /\ IdleQuick /\ IdleProbe /\ IdleProto

Next ==
  \/ DiscoverPrimaryOk /\ UNCHANGED <<clsVars, ttlVars, quickVars, probeVars, protoVars>>
  \/ DiscoverPrimaryRaises /\ UNCHANGED <<clsVars, ttlVars, quickVars, probeVars, protoVars>>
  \/ PingDiscoveryStart /\ UNCHANGED <<clsVars, ttlVars, quickVars, probeVars, protoVars>>
  \/ \E a \in Addr : PingHost(a) /\ UNCHANGED <<clsVars, ttlVars, quickVars, probeVars, protoVars>>
  \/ PingDiscoveryGather /\ UNCHANGED <<clsVars, ttlVars, quickVars, probeVars, protoVars>>
  \/ \E i \in 1..NumAddr : Dispatch(i) /\ UNCHANGED <<clsVars, ttlVars, quickVars, probeVars, protoVars>>
  \/ \E i \in 1..NumAddr : Vendor(i) /\ UNCHANGED <<clsVars, ttlVars, quickVars, probeVars, protoVars>>
  \/ \E i \in 1..NumAddr : Classify(i) /\ UNCHANGED <<clsVars, ttlVars, quickVars, probeVars, protoVars>>
  \/ \E i \in 1..NumAddr : DetectOsStep(i) /\ UNCHANGED <<clsVars, ttlVars, quickVars, probeVars, protoVars>>
  \/ \E i \in 1..NumAddr : Protocols(i) /\ UNCHANGED <<clsVars, ttlVars, quickVars, probeVars, protoVars>>
  \/ \E i \in 1..NumAddr : Services(i) /\ UNCHANGED <<clsVars, ttlVars, quickVars, probeVars, protoVars>>
  \/ \E i \in 1..NumAddr : Connections(i) /\ UNCHANGED <<clsVars, ttlVars, quickVars, probeVars, protoVars>>
  \/ \E i \in 1..NumAddr : QuickClassify(i) /\ UNCHANGED <<clsVars, ttlVars, quickVars, probeVars, protoVars>>
  \/ \E i \in 1..NumAddr : QuickPortScan(i) /\ UNCHANGED <<clsVars, ttlVars, quickVars, probeVars, protoVars>>
  \/ Return /\ UNCHANGED <<clsVars, ttlVars, quickVars, probeVars, protoVars>>

Spec == Init /\ [][Next]_vars

InitC == InitClassify /\ IdleTTL /\ IdleScan /\ IdleQuick /\ IdleProbe /\ IdleProto

NextClassify ==
  \/ ClassifyGetOpenPorts /\ UNCHANGED <<ttlVars, scanVars, quickVars, probeVars, protoVars>>
  \/ ClassifyGetServices /\ UNCHANGED <<ttlVars, scanVars, quickVars, probeVars, protoVars>>
  \/ ClassifyScore /\ UNCHANGED <<ttlVars, scanVars, quickVars, probeVars, protoVars>>

SpecClassify == InitC /\ [][NextClassify]_vars

InitT == InitTTL /\ IdleClassify /\ IdleScan /\ IdleQuick /\ IdleProbe /\ IdleProto

NextTTL ==
  \/ DetectOsScan /\ UNCHANGED <<clsVars, scanVars, quickVars, probeVars, protoVars>>
  \/ DetectOsPing /\ UNCHANGED <<clsVars, scanVars, quickVars, probeVars, protoVars>>

SpecTTL == InitT /\ [][NextTTL]_vars

InitQ == InitQuick /\ IdleClassify /\ IdleTTL /\ IdleScan /\ IdleProbe /\ IdleProto

NextQuick == QuickClassifyReturn /\ UNCHANGED <<clsVars, ttlVars, scanVars, probeVars, protoVars>>

SpecQuick == InitQ /\ [][NextQuick]_vars

\* the scanner's Config while no scan_network run is modelled
ConfiguredScan ==
  /\ pc = "idle"
  /\ config \in {[max_concurrent_scans |-> n] : n \in 1..MaxConfigConcurrent}
  /\ target = [wellformed |-> FALSE, addrs |-> {}]
  /\ mode = "discovery"
  /\ detailed = FALSE
  /\ primary = None
  /\ probes = {}
  /\ pings = <<>>
  /\ devices = <<>>
  /\ dispatched = 0
  /\ stage = <<>>
  /\ result = <<>>
  /\ scan_results = <<>>
  /\ error = None
  /\ started = <<>>
  /\ absorbed = <<>>

InitP == InitProbe /\ IdleClassify /\ IdleTTL /\ ConfiguredScan /\ IdleQuick /\ IdleProto

NextProbe ==
  \/ \E p \in Range(discovery_common_ports) :
       ProbeStart(p) /\ UNCHANGED <<clsVars, ttlVars, scanVars, quickVars, protoVars>>
  \/ \E p \in Range(discovery_common_ports) :
       ProbeConnect(p) /\ UNCHANGED <<clsVars, ttlVars, scanVars, quickVars, protoVars>>
  \/ \E p \in Range(discovery_common_ports) :
       ProbeClose(p) /\ UNCHANGED <<clsVars, ttlVars, scanVars, quickVars, protoVars>>
  \/ ProbeGather /\ UNCHANGED <<clsVars, ttlVars, scanVars, quickVars, protoVars>>

SpecProbe == InitP /\ [][NextProbe]_vars

InitA ==
  InitProto /\ IdleClassify /\ IdleTTL /\ IdleScan /\ IdleQuick /\ IdleProbe

NextProto ==
  \/ TestPort /\ UNCHANGED <<clsVars, ttlVars, scanVars, quickVars, probeVars>>
  \/ AdditionalPort /\ UNCHANGED <<clsVars, ttlVars, scanVars, quickVars, probeVars>>
  \/ AnalyzeReturn /\ UNCHANGED <<clsVars, ttlVars, scanVars, quickVars, probeVars>>

SpecProto == InitA /\ [][NextProto]_vars

(***************************************************************************)
(* Properties of scan_network (Spec)                                       *)
(***************************************************************************)
\* discover_devices has returned its candidate list
DiscoveryReturned ==
  pc \in {"dispatch", "returned"} \/ (pc = "raised" /\ error # "ValueError")

\* C1: every run returns exactly one ScanResult per candidate of the
\* discovery, and no failure of a per-host step aborts the run: no pipeline
\* raises out of scan_network, and a finished run holds as many results as
\* there are candidates.
C1_OneResultPerCandidate ==
  /\ \A i \in DOMAIN stage : stage[i] # "raised"
  /\ pc = "returned" => Len(scan_results) = Len(devices)

\* C2: at no point do more than Config.max_concurrent_scans per-host
\* pipelines run simultaneously.
C2_ConcurrencyBound == Cardinality(Inflight) <= config.max_concurrent_scans

\* C2 witness: the limit is reached while a candidate is still waiting
C2_Witness ==
  /\ Cardinality(Inflight) = config.max_concurrent_scans
  /\ dispatched < Len(devices)

\* C3: a malformed target makes scan_network fail with a fatal error before
\* any network probe has been issued; it never ends in a returned result.
C3_MalformedTargetFatal ==
  ~target.wellformed => (probes = {} /\ pc # "returned")

\* C4: when the primary pass fails for a well-formed target, discover_devices
\* does not fail; it pings every address of the target and returns exactly
\* the addresses whose ping replied, in order (none replied: the empty list).
C4_PingFallback ==
  (target.wellformed /\ primary = "raise") =>
     /\ error # "ValueError"
     /\ DiscoveryReturned =>
          /\ DOMAIN pings = target.addrs
          /\ \A a \in DOMAIN pings : pings[a] # "pending"
          /\ [i \in DOMAIN devices |-> devices[i].ip]
               = SortedSeq({a \in target.addrs : pings[a] = "reply"})

\* C4 witness: the sweep ran, one address replied and another did not
C4_Witness ==
  /\ target.wellformed
  /\ primary = "raise"
  /\ pc = "dispatch"
  /\ \E a, b \in DOMAIN pings : pings[a] = "reply" /\ pings[b] = "noreply"
  /\ Len(devices) = 1

(***************************************************************************)
(* Properties of classify_device (SpecClassify)                            *)
(***************************************************************************)
\* patterns holding the maximum score
TopScored ==
  {i \in DOMAIN device_score : device_score[i] = Max(Range(device_score))}

\* C5: when several patterns share the maximum non-zero score, the one with
\* the lowest declared priority among them is returned.
C5_TieBreakByPriority ==
  (cpc = "returned" /\ Cardinality(TopScored) >= 2
     /\ Max(Range(device_score)) > 0) =>
    \E i \in TopScored :
      /\ device_type = device_patterns[i].name
      /\ \A j \in TopScored :
           device_patterns[i].priority <= device_patterns[j].priority

\* C5 witness: a tie at a non-zero maximum that the first pattern is not in
C5_Witness ==
  /\ cpc = "returned"
  /\ Cardinality(TopScored) >= 2
  /\ Max(Range(device_score)) > 0
  /\ 1 \notin TopScored
  /\ device_type = "server"

\* number of the pattern's substrings occurring in the lower-cased hostname
HostnameMatches(p) ==
  Cardinality({k \in DOMAIN device_patterns[p].patterns :
                 IsSubstr(device_patterns[p].patterns[k],
                          lower(device.hostname.chars))})

\* C6 as stated: every pattern's score is 2 per open port in its port list,
\* plus 3 per detected service name in its service list, plus 5 per substring
\* found in the lower-cased hostname, each port and each service name being
\* counted once.
C6_ScorePerDistinctName ==
  cpc = "returned" =>
    \A p \in DOMAIN device_patterns :
      device_score[p] =
          2 * Cardinality(Range(open_ports) \cap device_patterns[p].ports)
        + 3 * Cardinality(Range(services) \cap device_patterns[p].services)
        + 5 * HostnameMatches(p)

\* C6 amended: every pattern's score is 2 per open port in its port list,
\* plus 3 per detected service entry (one per reported port, so a name
\* reported on several ports counts once per port) whose name is in its
\* service list, plus 5 per substring found in the lower-cased hostname; each
\* open port is counted once.
C6_ScorePerServiceEntry ==
  cpc = "returned" =>
    \A p \in DOMAIN device_patterns :
      device_score[p] =
          2 * Cardinality(Range(open_ports) \cap device_patterns[p].ports)
        + 3 * Cardinality({k \in DOMAIN services :
                             services[k] \in device_patterns[p].services})
        + 5 * HostnameMatches(p)

\* C6 witness: a service name reported on two ports, scored together with a
\* port match and a hostname match
C6_Witness ==
  /\ cpc = "returned"
  /\ \E j, k \in DOMAIN services : j # k /\ services[j] = services[k]
                                    /\ services[j] = "http"
  /\ Range(open_ports) \cap device_patterns[3].ports # {}
  /\ HostnameMatches(3) = 1
  /\ device_score[3] = 2 * Cardinality(Range(open_ports) \cap device_patterns[3].ports)
                       + 6 + 5

\* C7: classify_device returns 'unknown' exactly when every pattern scores 0,
\* and otherwise a pattern whose score is the maximum over all patterns.
C7_UnknownIffAllZero ==
  cpc = "returned" =>
    /\ device_type = "unknown" <=> \A p \in DOMAIN device_score : device_score[p] = 0
    /\ device_type # "unknown" =>
         \E p \in TopScored : device_patterns[p].name = device_type

\* C7 witness: a host with open ports that no pattern scores
C7_Witness ==
  /\ cpc = "returned"
  /\ open_ports # <<>>
  /\ services # <<>>
  /\ device_type = "unknown"

\* the host's only open port is 80 and its hostname contains "nginx"
NginxOnPort80 ==
  /\ DOMAIN host = {80}
  /\ device.hostname.kind = "str"
  /\ IsSubstr(W_nginx, device.hostname.chars)

\* C9 as stated: any host whose only open port is 80 and whose hostname
\* contains "nginx" is classified 'server'.
C9_NginxIsServer ==
  (cpc = "returned" /\ NginxOnPort80) => device_type = "server"

\* C9 amended: a host whose only open port is 80 and whose hostname contains
\* "nginx" is classified 'server' provided the hostname contains more of the
\* server pattern's substrings than of any other pattern's.
C9_NginxIsServerUnlessOutmatched ==
  (cpc = "returned" /\ NginxOnPort80
     /\ \A p \in DOMAIN device_patterns :
          device_patterns[p].name # "server" => HostnameMatches(3) > HostnameMatches(p))
    => device_type = "server"

\* C9 witness: port 80 was found open and scored for every pattern, and the
\* hostname match decided for 'server'
C9_Witness ==
  /\ cpc = "returned"
  /\ NginxOnPort80
  /\ open_ports = <<80>>
  /\ device_score[1] = device_score[3] - 5
  /\ device_type = "server"

(***************************************************************************)
(* Properties of the TTL fallback (SpecTTL)                                *)
(***************************************************************************)
\* C10: every parsed TTL t maps to exactly one family: t <= 64 Linux/macOS,
\* 64 < t <= 128 Windows, 128 < t <= 255 Network Device, t > 255 Unknown.
C10_TTLFamilies ==
  (tpc = "returned" /\ ttl >= 0) =>
     /\ ttl <= 64 => operating_system = "Linux/macOS"
     /\ (64 < ttl /\ ttl <= 128) => operating_system = "Windows"
     /\ (128 < ttl /\ ttl <= 255) => operating_system = "Network Device"
     /\ ttl > 255 => operating_system = "Unknown"

\* C10 witness: a ping output carrying TTL 128 was parsed
C10_Witness ==
  /\ tpc = "returned"
  /\ ping.outcome = "ok"
  /\ ping.digits = <<1, 2, 8>>
  /\ ttl = 128
  /\ operating_system = "Windows"
\* C14: in every ScanResult returned by scan_network, in both modes,
\* open_ports holds no port number more than once.
C14_OpenPortsDistinct ==
  \A i \in DOMAIN scan_results :
    \A j, k \in DOMAIN scan_results[i].open_ports :
      j # k => scan_results[i].open_ports[j] # scan_results[i].open_ports[k]

\* C14 witness: a returned result lists more than one open port
C14_Witness ==
  /\ pc = "returned"
  /\ \E i \in DOMAIN scan_results : Len(scan_results[i].open_ports) >= 2

\* C15: in every ScanResult, open_ports is a subset of the port universe
\* configured for the scan mode: Config.quick_scan_ports for a discovery
\* result, Config.detailed_scan_ports (1 to 1024) for a local_detailed
\* result, with the external service scan or with the basic-port-scan
\* fallback.
C15_OpenPortsWithinUniverse ==
  \A i \in DOMAIN scan_results :
    LET r == scan_results[i] IN
    /\ r.scan_mode = "discovery"
         => Range(r.open_ports) \subseteq Range(quick_scan_ports)
    /\ r.scan_mode = "local_detailed"
         => Range(r.open_ports) \subseteq detailed_scan_ports

\* C16: every ScanResult returned by scan_network has a non-empty
\* ip_address that is one of the addresses the target denotes, on the
\* primary and on the ping-sweep discovery path.
C16_AddressWithinTarget ==
  \A i \in DOMAIN scan_results :
    /\ scan_results[i].ip_address # 0
    /\ scan_results[i].ip_address \in target.addrs

\* C16 witness: a run whose candidates came from the ping sweep returned a
\* result
C16_Witness ==
  /\ pc = "returned"
  /\ primary = "raise"
  /\ scan_results # <<>>

\* C17: when discovery yields no live host, scan_network returns an empty
\* result list, runs no per-host pipeline and raises no error.
C17_NoHostEmptyResult ==
  (DiscoveryReturned /\ devices = <<>>) =>
    /\ pc \in {"dispatch", "returned"}
    /\ error = None
    /\ scan_results = <<>>
    /\ dispatched = 0
    /\ started = <<>>

\* C17 witness: every address of a non-empty range was down and the run
\* has returned
C17_Witness ==
  /\ pc = "returned"
  /\ target.addrs # {}
  /\ primary = "raise"
  /\ \A a \in DOMAIN pings : pings[a] = "noreply"
  /\ devices = <<>>
  /\ scan_results = <<>>

\* C18: the returned sequence preserves discovery order: its i-th
\* ScanResult has the ip_address of the i-th candidate of discover_devices.
C18_DiscoveryOrder ==
  pc = "returned" =>
    /\ Len(scan_results) = Len(devices)
    /\ \A i \in DOMAIN scan_results :
         scan_results[i].ip_address = devices[i].ip

\* C18 witness: a run over at least two candidates has returned
C18_Witness ==
  /\ pc = "returned"
  /\ Len(devices) >= 2
  /\ Len(scan_results) = Len(devices)

\* steps of the full path and of the cheap path, after the vendor lookup
DetailedSteps == {"classify", "detect_os", "protocols", "services", "connections"}

CheapSteps == {"quick_classify", "quick_port_scan"}

\* C19: every host goes through the full path (scan_mode "local_detailed")
\* exactly when mode is "local" and detailed is true, and through the cheap
\* path (scan_mode "discovery") otherwise; all results of one run have the
\* same scan_mode.
C19_DepthByMode ==
  /\ \A i \in DOMAIN started :
       started[i] # <<>> =>
         IF mode = "local" /\ detailed
         THEN /\ result[i].scan_mode = "local_detailed"
              /\ Range(started[i]) \subseteq {"vendor"} \cup DetailedSteps
         ELSE /\ result[i].scan_mode = "discovery"
              /\ Range(started[i]) \subseteq {"vendor"} \cup CheapSteps
  /\ \A i, j \in DOMAIN scan_results :
       scan_results[i].scan_mode = scan_results[j].scan_mode

\* C19 witness: a local run without the detailed flag returned results of
\* the cheap path
C19_Witness ==
  /\ pc = "returned"
  /\ mode = "local"
  /\ ~detailed
  /\ Len(scan_results) >= 2
  /\ \A i \in DOMAIN started : "quick_port_scan" \in Range(started[i])

\* C20: per host the stages run in the order vendor resolution, port
\* probing, protocol fingerprinting, classification: the device/OS
\* classification never starts before the host's port probing (and, on the
\* full path, its protocol fingerprinting) has completed, and no per-host
\* stage starts before discovery has completed.
C20_StageOrder ==
  \A i \in DOMAIN started :
    /\ started[i] # <<>> => DiscoveryReturned
    /\ \A k \in DOMAIN started[i] :
         started[i][k] \in {"classify", "detect_os", "quick_classify"} =>
           /\ \E j \in 1..(k - 1) :
                started[i][j] \in {"services", "quick_port_scan"}
           /\ result[i].scan_mode = "local_detailed" =>
                \E j \in 1..(k - 1) : started[i][j] = "protocols"

\* C27: for every candidate with a hostname, the ScanResult emitted for it
\* carries the same hostname; a result's hostname is unset only when the
\* candidate's is.
C27_HostnameCarried ==
  \A i \in DOMAIN scan_results :
    scan_results[i].hostname = devices[i].hostname

\* C28: in every discovery-mode ScanResult, device_type is consistent with
\* open_ports: 'printer' implies 9100 is in open_ports, 'workstation'
\* implies 3389 is, 'server' implies 22 and 80 are, 'device' implies 80 or
\* 443 is.
C28_TypeConsistentWithPorts ==
  \A i \in DOMAIN scan_results :
    LET r == scan_results[i]
        op == Range(r.open_ports)
    IN r.scan_mode = "discovery" =>
         /\ r.device_type = "printer" => 9100 \in op
         /\ r.device_type = "workstation" => 3389 \in op
         /\ r.device_type = "server" => {22, 80} \subseteq op
         /\ r.device_type = "device" => op \cap {80, 443} # {}

\* C30: in every local_detailed ScanResult the set of open_ports equals the
\* set of keys of services, each port listed once, on the external-tool
\* path and on the basic-port-scan fallback.
C30_OpenPortsAreServiceKeys ==
  \A i \in DOMAIN scan_results :
    LET r == scan_results[i] IN
    r.scan_mode = "local_detailed" =>
      /\ Range(r.open_ports) = DOMAIN r.services
      /\ Len(r.open_ports) = Cardinality(DOMAIN r.services)

\* C30 witness: a returned local_detailed result with two service entries
C30_Witness ==
  /\ pc = "returned"
  /\ \E i \in DOMAIN scan_results :
       /\ scan_results[i].scan_mode = "local_detailed"
       /\ DOMAIN scan_results[i].services = {80, 3306}
       /\ scan_results[i].open_ports = <<80, 3306>>

\* C23: in discovery mode an exception of the vendor lookup, of
\* quick_classify or of the port scan is absorbed inside that step: the
\* remaining steps still run and the host's ScanResult is still returned,
\* with manufacturer unset, device_type "unknown" or open_ports empty
\* respectively.
C23_DiscoveryStepsAbsorbed ==
  ~(mode = "local" /\ detailed) =>
    \A i \in DOMAIN absorbed :
      /\ stage[i] # "raised"
      /\ "vendor" \in absorbed[i] =>
           /\ result[i].manufacturer = None
           /\ stage[i] \in {"quick_classify", "quick_port_scan", "finished"}
      /\ "quick_classify" \in absorbed[i] =>
           /\ result[i].device_type = "unknown"
           /\ stage[i] \in {"quick_port_scan", "finished"}
      /\ "quick_port_scan" \in absorbed[i] =>
           /\ result[i].open_ports = <<>>
           /\ stage[i] = "finished"
      /\ stage[i] = "finished" =>
           /\ started[i] = <<"vendor", "quick_classify", "quick_port_scan">>
           /\ i \in DOMAIN scan_results
           /\ scan_results[i] = result[i]

\* C23 witness: all three steps of one host failed and the run returned
\* that host's result
C23_Witness ==
  /\ pc = "returned"
  /\ \E i \in DOMAIN absorbed :
       /\ absorbed[i] = {"vendor", "quick_classify", "quick_port_scan"}
       /\ scan_results[i].ip_address = devices[i].ip
       /\ scan_results[i].mac_address # None

(***************************************************************************)
(* Properties of quick_classify (SpecQuick)                                *)
(***************************************************************************)
\* C11: quick_classify is a decision list over the open ports among
\* {22, 23, 80, 443, 3389, 9100}: 9100 gives 'printer'; else 3389 gives
\* 'workstation'; else 22 and 80 together give 'server'; else 80 or 443
\* gives 'device'; else 'unknown'. An earlier rule wins over a later one.
C11_QuickDecisionList ==
  qpc = "returned" =>
    /\ 9100 \in qopen => qtype = "printer"
    /\ (9100 \notin qopen /\ 3389 \in qopen) => qtype = "workstation"
    /\ (qopen \cap {9100, 3389} = {} /\ {22, 80} \subseteq qopen)
         => qtype = "server"
    /\ (qopen \cap {9100, 3389} = {} /\ ~({22, 80} \subseteq qopen)
          /\ qopen \cap {80, 443} # {}) => qtype = "device"
    /\ (qopen \cap {9100, 3389, 80, 443} = {}) => qtype = "unknown"

\* C11 witness: the printer rule and the remote-desktop rule both apply and
\* the earlier one wins
C11_Witness ==
  /\ qpc = "returned"
  /\ {9100, 3389, 22, 80} \subseteq qopen
  /\ qtype = "printer"

(***************************************************************************)
(* Properties of quick_port_scan (SpecProbe)                               *)
(***************************************************************************)
\* C12: a port whose connection attempt is refused, unreachable or timed
\* out is left out of the returned open ports, no error reaches the caller,
\* and the ports of the same call whose check succeeded are still reported.
C12_FailedProbeOmitted ==
  /\ ppc # "raised"
  /\ ppc = "returned" =>
       \A p \in DOMAIN conn :
         /\ conn[p] \in {"refused", "unreachable", "timeout"}
              => p \notin Range(probed)
         /\ conn[p] = "closed" => p \in Range(probed)

\* C12 witness: one port timed out and another was found open in one call
C12_Witness ==
  /\ ppc = "returned"
  /\ \E p, q \in DOMAIN conn :
       /\ conn[p] = "timeout"
       /\ conn[q] = "closed"
       /\ probed = <<q>>

\* C13: a port whose TCP connection was established within the timeout is
\* in the returned open ports, whatever the close of that connection did.
C13_EstablishedIsOpen ==
  ppc = "returned" =>
    \A p \in DOMAIN conn :
      conn[p] \in CloseOutcomes => p \in Range(probed)

\* C21: at no point are more TCP port-probe connections outstanding than
\* Config.max_concurrent_scans, for any size of the probed port set.
C21_ProbeBudget == Cardinality(Outstanding) <= config.max_concurrent_scans

(***************************************************************************)
(* Properties of detect_os (SpecTTL) and classify_device (SpecClassify)    *)
(***************************************************************************)
\* C24: detect_os never raises and follows a fixed ladder: the external
\* tool's first OS match when it supplies one; otherwise the TTL-based
\* estimate; unset (None) when the tool fails or supplies nothing and the
\* ping fails or its output has no TTL.
C24_DetectOsLadder ==
  /\ tpc # "raised"
  /\ tpc = "returned" =>
       /\ os_scan = "match" => operating_system = OsMatchName
       /\ (os_scan # "match" /\ ttl >= 0) =>
            operating_system \in {"Linux/macOS", "Windows", "Network Device",
                                  "Unknown"}
       /\ (os_scan # "match" /\ ttl < 0) => operating_system = None

\* C24 witness: the external scan raised and the ping output carried no TTL
C24_Witness ==
  /\ tpc = "returned"
  /\ os_scan = "raise"
  /\ ping.outcome = "ok"
  /\ ping.label = L_hlim
  /\ operating_system = None

\* C25: classify_device on a candidate whose hostname is None does not
\* raise: the hostname adds 0 to every score and a device type or 'unknown'
\* is returned.
C25_UnsetHostnameTolerated ==
  device.hostname.kind = "none" =>
    /\ cpc # "raised"
    /\ cpc = "returned" => device_type # None

(***************************************************************************)
(* Properties of analyze_device (SpecProto)                                *)
(***************************************************************************)
\* C22: a connection failure, probe-write failure, read failure or read
\* timeout while testing one signature on one port never raises to the
\* caller: it counts as no match for that port, testing continues with the
\* signature's next port and then with the next signature, so later
\* signatures are always tested.
C22_ProbeFailureIsNoMatch ==
  /\ apc # "raised"
  /\ \A i \in DOMAIN tried : \A k \in DOMAIN tried[i] :
       tried[i][k] \in ProbeFailures =>
         \* no match for that port
         /\ (\A j \in DOMAIN tried[i] : tried[i][j] # "match")
              => Signatures[i].name \notin Range(aprotocols)
         \* the next port, or the next signature, is where testing stands
         /\ apc = "test" =>
              \/ asig > i
              \/ asig = i /\ aport > k
  /\ apc \in {"additional", "collect", "returned"} =>
       \A i \in DOMAIN tried : tried[i][1] # "untested"

\* C22 witness: every port of the first signature failed, one in each way,
\* and the second signature was then matched
C22_Witness ==
  /\ apc = "returned"
  /\ tried[1] = <<"connect_failed", "write_failed", "read_failed">>
  /\ tried[2][1] = "read_timeout"
  /\ tried[2][2] = "match"
  /\ Signatures[2].name \in areturned

\* C26: a protocol name is in the protocols of a host only if a response
\* read from the host on one of that protocol's candidate ports contained
\* one of the protocol's response patterns; an open port alone never adds a
\* protocol name.
C26_ProtocolOnlyOnPattern ==
  apc = "returned" =>
    \A name \in areturned :
      \E i \in DOMAIN Signatures :
        /\ Signatures[i].name = name
        /\ \E k \in DOMAIN tried[i] : tried[i][k] = "match"

\* C29: every TCP connection opened by _test_protocol is closed before
\* _test_protocol returns, on every path.
C29_ConnectionsClosed ==
  \A c \in aopen : apc = "test" /\ asig = c[1]

====
